---------------------------- MODULE Spec2Model ----------------------------
(***************************************************************************)
(* A model of the web accessibility auditor (src/main.py):                 *)
(*   - the sitemap resolver extract_urls_from_sitemap and its recursive    *)
(*     helper _walk, as a machine with an explicit call stack;             *)
(*   - the violation aggregator build_aggregated_results, as operators     *)
(*     over the raw-violation list;                                        *)
(*   - the scan orchestration of AccessibilityApp: the handlers of the     *)
(*     window (start_scan, cancel_scan, save_scan, load_scan, ...), which  *)
(*     run one at a time on the event loop, and the worker threads of      *)
(*     run_scan_thread, which run one statement at a time beside them.     *)
(* Strings are sequences of code points, so that strip(), endswith() and   *)
(* the ordering of strings are computed and not assumed.                   *)
(***************************************************************************)
EXTENDS Integers, Sequences, FiniteSets, TLC

VARIABLES
    visited,        \* _walk's closure set of sitemap URLs already entered
    page_urls,      \* the closure list of collected page URLs
    stack,          \* the call stack of _walk: one frame per active call
    returned,       \* extract_urls_from_sitemap has returned (or raised)
    result,         \* the value it returned
    raised,         \* an exception left extract_urls_from_sitemap
    fetchCount,     \* history: number of fetches of each URL in this run
    root_url,       \* the argument of extract_urls_from_sitemap
    lastStep,       \* history: what the latest step of the traversal did
    failed,         \* history: the traversal paths of the calls whose fetch failed
    scheduled,      \* history: children the parsed index documents list for recursion
    listed,         \* history: page URLs the parsed documents list for collection
    firstPath,      \* history: the traversal path at which each page URL was first collected
    xml_text,       \* _walk's local xml: the text one call has fetched
    calls,          \* the calls of _walk and add_page_url that call makes for it, in order
    raw_results,    \* AccessibilityApp.raw_results
    results,        \* AccessibilityApp.results
    is_scanning,    \* AccessibilityApp.is_scanning
    cancel_requested, \* AccessibilityApp.cancel_requested
    progress,       \* the progress bar: its "value" and its "maximum"
    status_label,   \* the text of the status label
    widgets,        \* the state of the buttons, and whether cancel_btn is packed
    comp_table,     \* the number of rows of the summary table
    selection,      \* the selected row of the summary table, 0 for none
    workers,        \* the threads of run_scan_thread that have not ended
    lastOp,         \* history: the handler or worker statement that ran last
    scanned,        \* history: the Scanner invocations of the latest run
    cancelPoint,    \* history: where the worker stood when cancel was accepted
    overlap         \* history: the latest run began before an earlier thread had ended

sitemapVars == <<visited, page_urls, stack, returned, result, raised, root_url,
                 lastStep, fetchCount, failed, scheduled, listed, firstPath,
                 xml_text, calls>>
aggVars == <<raw_results, results>>
scanVars == <<is_scanning, cancel_requested, progress, status_label, widgets,
              comp_table, selection, workers, lastOp, scanned, cancelPoint, overlap>>
vars == <<sitemapVars, aggVars, scanVars>>

-----------------------------------------------------------------------------
(* Bounds *)

\* Largest number of <sitemap>, <url> or table-row entries in one document.
MaxEntries == 2

\* Largest number of raw violations handed to the aggregator.
MaxRaw == 3

\* The <sitemap> elements, and the <url> elements, of a document parsed alone.
MaxLocs == 2

-----------------------------------------------------------------------------
(* Strings *)

IsSpace(c) == c \in {9, 10, 13, 32}

RECURSIVE LStrip(_)
LStrip(s) == IF s # <<>> /\ IsSpace(Head(s)) THEN LStrip(Tail(s)) ELSE s

RECURSIVE RStrip(_)
RStrip(s) ==
    IF s # <<>> /\ IsSpace(s[Len(s)]) THEN RStrip(SubSeq(s, 1, Len(s) - 1)) ELSE s

\* str.strip()
Strip(s) == RStrip(LStrip(s))

\* str.endswith(suffix)
EndsWith(s, suffix) ==
    /\ Len(s) >= Len(suffix)
    /\ SubSeq(s, Len(s) - Len(suffix) + 1, Len(s)) = suffix

\* Lexicographic order of sequences of numbers, a proper prefix first: the
\* order "<" of Python strings by code point, and the document order of the
\* paths of a depth-first walk.
RECURSIVE LexLess(_, _)
LexLess(p, q) ==
    IF q = <<>> THEN FALSE
    ELSE IF p = <<>> THEN TRUE
    ELSE IF Head(p) # Head(q) THEN Head(p) < Head(q)
    ELSE LexLess(Tail(p), Tail(q))

\* s[:n]
Prefix(s, n) == SubSeq(s, 1, IF Len(s) < n THEN Len(s) ELSE n)

\* ".xml"
DotXml == <<46, 120, 109, 108>>

\* "a.xml", "b.xml", "c", " " (a blank location)
UrlA == <<97>> \o DotXml
UrlB == <<98>> \o DotXml
UrlC == <<99>>
Blank == <<32>>

\* The location texts a document entry may carry.
LocTexts == {UrlA, UrlB, UrlC, Blank}

\* The URLs a traversal can be asked to fetch.
Urls == {UrlA, UrlB, UrlC}

\* An entry of a document: <<>> when the element has no location (no <loc>
\* child, no anchor in the row), <<text>> when it has one.
Entries == {<<>>} \cup {<<t>> : t \in LocTexts}

EntrySeqs(n) == UNION {[1..k -> Entries] : k \in 0..n}

Range(s) == {s[i] : i \in DOMAIN s}

IsPrefix(s, t) == Len(s) <= Len(t) /\ SubSeq(t, 1, Len(s)) = s

NoDuplicates(s) == \A i, j \in DOMAIN s : i # j => s[i] # s[j]

-----------------------------------------------------------------------------
(* Sitemap documents and their fetch *)

\* A fetched text, by what the parsers see in it.  fmt: "html" when the first
\* 200 characters carry an HTML doctype or <html tag, "xml" otherwise, "empty"
\* for an empty body; "none" stands for Python's None and "raise" for an
\* exception in flight.  table/rows: the sitemap table of an HTML document and
\* the location of each row's first anchor.  pandas: pandas.read_xml's XPath
\* //sitemap and //url select the document's elements (they do not when the
\* document declares a default namespace).  root: the element BeautifulSoup
\* finds, "sitemapindex", "urlset" or "other".  sitemaps/urls: the <loc> of each
\* <sitemap> and each <url> element, in document order.
Doc(f, t, r, p, ro, sm, u) ==
    [fmt |-> f, table |-> t, rows |-> r, pandas |-> p, root |-> ro,
     sitemaps |-> sm, urls |-> u]

None == Doc("none", FALSE, <<>>, FALSE, "other", <<>>, <<>>)
Raise == Doc("raise", FALSE, <<>>, FALSE, "other", <<>>, <<>>)
EmptyText == Doc("empty", FALSE, <<>>, FALSE, "other", <<>>, <<>>)

HtmlDocs ==
    {Doc("html", TRUE, r, FALSE, "other", <<>>, <<>>) : r \in EntrySeqs(MaxEntries)}
    \cup {Doc("html", FALSE, <<>>, FALSE, "other", <<>>, <<>>)}

\* The <sitemap> and <url> entries of one XML document: MaxEntries in all.
XmlEntryPairs ==
    {su \in EntrySeqs(MaxEntries) \X EntrySeqs(MaxEntries) :
        Len(su[1]) + Len(su[2]) <= MaxEntries}

XmlDocs ==
    {Doc("xml", FALSE, <<>>, p, ro, su[1], su[2]) :
        p \in BOOLEAN, ro \in {"sitemapindex", "urlset", "other"},
        su \in XmlEntryPairs}

Texts == HtmlDocs \cup XmlDocs \cup {EmptyText}

\* What requests.get can do: raise, or answer with a status and a body.
Response(k, st, t) == [kind |-> k, status |-> st, text |-> t]

Responses ==
    {Response("exception", 0, None), Response("http", 404, EmptyText)}
    \cup {Response("http", 200, t) : t \in Texts}

\* A fetch_sitemap_xml without its try/except: the transport exception escapes.
fetch_sitemap_xml_no_catch(resp) ==
    IF resp.kind = "exception" THEN Raise
    ELSE IF resp.status # 200 THEN None
    ELSE resp.text

\* fetch_sitemap_xml: the body on status 200, None on any other status or on
\* an exception of the transport.
fetch_sitemap_xml(resp) ==
    IF resp.kind = "exception" THEN None
    ELSE IF resp.status # 200 THEN None
    ELSE resp.text

-----------------------------------------------------------------------------
(* Parsing one document *)

\* pd.read_xml(xpath=...) followed by the "empty -> None" test: the selected
\* rows, or <<>> (None) when the call raises or selects nothing.
ReadXml(xml, entries) == IF xml.pandas THEN entries ELSE <<>>

\* "loc" in df.columns: some selected element has a <loc> child.
HasLocColumn(df) == \E i \in DOMAIN df : df[i] # <<>>

\* df["loc"].dropna()
RECURSIVE DropNa(_)
DropNa(df) ==
    IF df = <<>> THEN <<>>
    ELSE IF Head(df) = <<>> THEN DropNa(Tail(df))
    ELSE <<Head(df)>> \o DropNa(Tail(df))

Parsed(m, it) == [mode |-> m, items |-> it]

\* A choice of branch that tries the urlset before the index.
ParseSitemapUrlsFirst(xml) ==
    IF xml.fmt = "html"
    THEN IF xml.table THEN Parsed("html", xml.rows) ELSE Parsed("none", <<>>)
    ELSE LET sitemap_df == ReadXml(xml, xml.sitemaps)
             url_df == ReadXml(xml, xml.urls)
         IN  IF url_df # <<>> /\ HasLocColumn(url_df)
             THEN Parsed("urlset", DropNa(url_df))
             ELSE IF sitemap_df # <<>> /\ HasLocColumn(sitemap_df)
             THEN Parsed("index", DropNa(sitemap_df))
             ELSE IF xml.root = "sitemapindex"
             THEN Parsed("bs4index", xml.sitemaps)
             ELSE IF xml.root = "urlset"
             THEN Parsed("bs4urlset", xml.urls)
             ELSE Parsed("none", <<>>)

\* The branch _walk takes for a fetched text and the entries its loop iterates.
ParseSitemap(xml) ==
    IF xml.fmt = "html"
    THEN IF xml.table THEN Parsed("html", xml.rows) ELSE Parsed("none", <<>>)
    ELSE LET sitemap_df == ReadXml(xml, xml.sitemaps)
             url_df == ReadXml(xml, xml.urls)
         IN  IF sitemap_df # <<>> /\ HasLocColumn(sitemap_df)
             THEN Parsed("index", DropNa(sitemap_df))
             ELSE IF url_df # <<>> /\ HasLocColumn(url_df)
             THEN Parsed("urlset", DropNa(url_df))
             ELSE IF xml.root = "sitemapindex"
             THEN Parsed("bs4index", xml.sitemaps)
             ELSE IF xml.root = "urlset"
             THEN Parsed("bs4urlset", xml.urls)
             ELSE Parsed("none", <<>>)

Act(o, a) == [op |-> o, arg |-> a]

\* What one iteration of _walk's loop does with entry e: recurse ("walk"),
\* collect ("add") or nothing ("skip").
ItemAction(mode, e) ==
    IF mode = "html"
    THEN IF e = <<>> \/ Strip(e[1]) = <<>> THEN Act("skip", <<>>)
         ELSE IF EndsWith(Strip(e[1]), DotXml) THEN Act("walk", Strip(e[1]))
         ELSE Act("add", Strip(e[1]))
    ELSE IF mode = "index"
    THEN IF Strip(e[1]) = <<>> THEN Act("skip", <<>>) ELSE Act("walk", Strip(e[1]))
    ELSE IF mode = "urlset"
    THEN Act("add", Strip(e[1]))
    ELSE IF mode = "bs4index"
    THEN IF e = <<>> \/ e[1] = <<>> THEN Act("skip", <<>>)
         ELSE IF EndsWith(Strip(e[1]), DotXml) THEN Act("walk", Strip(e[1]))
         ELSE Act("skip", <<>>)
    ELSE IF e = <<>> \/ e[1] = <<>> THEN Act("skip", <<>>)
         ELSE Act("add", Strip(e[1]))

\* The iterations of the loop of the branch taken that do something, in
\* document order: the entries the loop passes over ("continue", a failed
\* "if") are left out.
RECURSIVE LoopPlan(_, _)
LoopPlan(mode, items) ==
    IF items = <<>> THEN <<>>
    ELSE IF ItemAction(mode, Head(items)).op = "skip"
    THEN LoopPlan(mode, Tail(items))
    ELSE <<ItemAction(mode, Head(items))>> \o LoopPlan(mode, Tail(items))

\* The locations a loop will recurse into, and those it will collect.
WalkTargets(plan) ==
    {plan[i].arg : i \in {j \in DOMAIN plan : plan[j].op = "walk"}}

AddTargets(plan) ==
    {plan[i].arg : i \in {j \in DOMAIN plan : plan[j].op = "add" /\ plan[j].arg # <<>>}}

-----------------------------------------------------------------------------
(* The traversal: extract_urls_from_sitemap and _walk *)

\* A frame of _walk: pc = "call" on entry, "loop" while in the loop of the
\* branch taken, with the iterations still to run (rest) and the number already
\* run (idx).
Frame(u, pc, r, i) == [url |-> u, pc |-> pc, rest |-> r, idx |-> i]

CallFrame(u) == Frame(u, "call", <<>>, 0)

Top == stack[Len(stack)]

Pop(stk) == SubSeq(stk, 1, Len(stk) - 1)

ReplaceTop(stk, f) == [stk EXCEPT ![Len(stk)] = f]

\* The recursion depth the traversal needs: one frame per distinct URL and one
\* more for a call that finds its URL visited.
MaxDepth == Cardinality(Urls) + 1

\* The position of the entry being processed, frame by frame from the root.
PathOf(stk) == [i \in 1..Len(stk) |-> stk[i].idx]

\* add_page_url without its membership test.
add_page_url_no_dedup(pu, u) == IF u # <<>> THEN Append(pu, u) ELSE pu

\* add_page_url inserting at the front.
add_page_url_front(pu, u) ==
    IF u # <<>> /\ u \notin Range(pu) THEN <<u>> \o pu ELSE pu

add_page_url(pu, u) ==
    IF u # <<>> /\ u \notin Range(pu) THEN Append(pu, u) ELSE pu

\* A visited test that never prunes.
AlreadyVisitedNever(u, vis) == FALSE

\* "if url in visited"
AlreadyVisited(u, vis) == u \in vis

\* A visited.add that forgets the URL.
MarkVisitedForget(vis, u) == vis

\* "visited.add(url)"
MarkVisited(vis, u) == vis \cup {u}

\* A return that falls back on the root URL when nothing was collected.
ReturnValueFallback(pu) == IF pu = <<>> THEN <<root_url>> ELSE pu

\* The value extract_urls_from_sitemap returns.
ReturnValue(pu) == pu

InitSitemap ==
    /\ visited = {}
    /\ page_urls = <<>>
    /\ root_url \in Urls
    /\ stack = <<CallFrame(root_url)>>
    /\ lastStep = "start"
    /\ returned = FALSE
    /\ result = <<>>
    /\ raised = FALSE
    /\ fetchCount = [u \in Urls |-> 0]
    /\ failed = {}
    /\ scheduled = {}
    /\ listed = {}
    /\ firstPath = [u \in Urls |-> <<>>]
    /\ xml_text = None
    /\ calls = <<>>

\* _walk(url) on a URL already visited: log and return.
WalkSkipVisited ==
    /\ stack # <<>>
    /\ Top.pc = "call"
    /\ AlreadyVisited(Top.url, visited)
    /\ stack' = Pop(stack)
    /\ lastStep' = "skip_visited"
    /\ UNCHANGED <<visited, page_urls, returned, result, raised, root_url,
                   fetchCount, failed, scheduled, listed, firstPath>>
    /\ UNCHANGED <<xml_text, calls>>
    /\ UNCHANGED aggVars
    /\ UNCHANGED scanVars

\* _walk(url) on a new URL: mark it, fetch it, choose the parsing branch.
WalkFetch ==
    /\ stack # <<>>
    /\ Top.pc = "call"
    /\ ~AlreadyVisited(Top.url, visited)
    /\ \E resp \in Responses :
        LET xml == fetch_sitemap_xml(resp)
            p == ParseSitemap(xml)
            plan == LoopPlan(p.mode, p.items)
        IN  /\ visited' = MarkVisited(visited, Top.url)
            /\ fetchCount' = [fetchCount EXCEPT ![Top.url] = @ + 1]
            /\ failed' = IF resp.kind = "exception" \/ resp.status # 200
                         THEN failed \cup {PathOf(stack)} ELSE failed
            /\ lastStep' = IF resp.kind = "exception" \/ resp.status # 200
                           THEN "fetch_failed" ELSE "fetch_ok"
            /\ IF xml.fmt = "raise"
               THEN /\ stack' = <<>>
                    /\ raised' = TRUE
                    /\ returned' = TRUE
                    /\ UNCHANGED <<scheduled, listed>>
               ELSE IF xml.fmt \in {"none", "empty"} \/ p.mode = "none"
               THEN /\ stack' = Pop(stack)
                    /\ UNCHANGED <<raised, returned, scheduled, listed>>
               ELSE /\ stack' = ReplaceTop(stack, Frame(Top.url, "loop", plan, 0))
                    /\ scheduled' = scheduled \cup WalkTargets(plan)
                    /\ listed' = listed \cup AddTargets(plan)
                    /\ UNCHANGED <<raised, returned>>
    /\ UNCHANGED <<page_urls, result, root_url, firstPath>>
    /\ UNCHANGED <<xml_text, calls>>
    /\ UNCHANGED aggVars
    /\ UNCHANGED scanVars

\* One iteration of the loop of the branch taken.
WalkLoopItem ==
    /\ stack # <<>>
    /\ Top.pc = "loop"
    /\ Top.rest # <<>>
    /\ LET act == Head(Top.rest)
           stk == ReplaceTop(stack, [Top EXCEPT !.rest = Tail(@), !.idx = @ + 1])
       IN  IF act.op = "walk"
           THEN /\ Len(stack) < MaxDepth
                /\ stack' = Append(stk, CallFrame(act.arg))
                /\ lastStep' = "walk"
                /\ UNCHANGED <<page_urls, firstPath>>
           ELSE IF act.op = "add"
           THEN /\ stack' = stk
                /\ page_urls' = add_page_url(page_urls, act.arg)
                /\ lastStep' = IF act.arg \in Range(page_urls) THEN "add_seen"
                               ELSE IF act.arg = <<>> THEN "add_empty"
                               ELSE "add_new"
                /\ firstPath' =
                       [u \in Urls |->
                           IF u \notin Range(page_urls) /\ u \in Range(page_urls')
                           THEN PathOf(stk) ELSE firstPath[u]]
           ELSE /\ stack' = stk
                /\ lastStep' = "skip"
                /\ UNCHANGED <<page_urls, firstPath>>
    /\ UNCHANGED <<visited, returned, result, raised, root_url, fetchCount,
                   failed, scheduled, listed>>
    /\ UNCHANGED <<xml_text, calls>>
    /\ UNCHANGED aggVars
    /\ UNCHANGED scanVars

\* The loop is exhausted: _walk returns to its caller.
WalkReturn ==
    /\ stack # <<>>
    /\ Top.pc = "loop"
    /\ Top.rest = <<>>
    /\ stack' = Pop(stack)
    /\ lastStep' = "return"
    /\ UNCHANGED <<visited, page_urls, returned, result, raised, root_url,
                   fetchCount, failed, scheduled, listed, firstPath>>
    /\ UNCHANGED <<xml_text, calls>>
    /\ UNCHANGED aggVars
    /\ UNCHANGED scanVars

\* The root call has returned: extract_urls_from_sitemap returns page_urls.
Finish ==
    /\ stack = <<>>
    /\ ~returned
    /\ returned' = TRUE
    /\ result' = ReturnValue(page_urls)
    /\ lastStep' = "finish"
    /\ UNCHANGED <<visited, page_urls, stack, raised, root_url, fetchCount,
                   failed, scheduled, listed, firstPath>>
    /\ UNCHANGED <<xml_text, calls>>
    /\ UNCHANGED aggVars
    /\ UNCHANGED scanVars

NextSitemap ==
    \/ WalkSkipVisited
    \/ WalkFetch
    \/ WalkLoopItem
    \/ WalkReturn
    \/ Finish

\* The texts one call of _walk is tried on: as Texts, with up to MaxLocs
\* <sitemap> and MaxLocs <url> elements in one XML document.
ParseTexts ==
    HtmlDocs \cup {EmptyText}
    \cup {Doc("xml", FALSE, <<>>, p, ro, sm, u) :
            p \in BOOLEAN, ro \in {"sitemapindex", "urlset", "other"},
            sm \in EntrySeqs(MaxLocs), u \in EntrySeqs(MaxLocs)}

\* One call of _walk from its parsing to its return, on the text fetched: the
\* branch is chosen and its loop makes its calls, as in WalkFetch and
\* WalkLoopItem, and the callees are left out.
WalkDocument ==
    /\ lastStep = "start"
    /\ LET p == ParseSitemap(xml_text)
       IN  calls' = LoopPlan(p.mode, p.items)
    /\ lastStep' = "document"
    /\ UNCHANGED <<visited, page_urls, stack, returned, result, raised,
                   root_url, fetchCount, failed, scheduled, listed, firstPath,
                   xml_text>>
    /\ UNCHANGED aggVars
    /\ UNCHANGED scanVars

-----------------------------------------------------------------------------
(* The violation aggregator: build_aggregated_results *)

\* The number of characters of inner_text that enter the aggregation key.
KeyTextLen == 120

\* A record of raw_results, as run_axe_scan builds it.
Violation(u, p, d, h, i, c, r, t, x) ==
    [url |-> u, priority |-> p, description |-> d, element_html |-> h,
     element_id |-> i, element_classes |-> c, rule_id |-> r, tag |-> t,
     inner_text |-> x]

\* Rule ids "a" and "ab": the second extends the first.
RuleIds == {<<97>>, <<97, 98>>}

\* The four impacts of the rank table, the empty impact and one it does not know.
Priorities == {"critical", "serious", "moderate", "minor", "", "info"}

\* The raw violations the aggregator is fed: every page, rule and impact on one
\* element, and the same rules on another element of another description.
Violations ==
    {Violation(u, p, "d1", "<a>", "", "", r, "a", <<>>) :
        u \in {UrlA, UrlC}, p \in Priorities \ {"serious"}, r \in RuleIds}
    \cup {Violation(UrlC, "serious", "d2", "<div>", "", "", r, "div", <<>>) :
            r \in RuleIds}

RawLists(n) == UNION {[1..k -> Violations] : k \in 0..n}

\* A text of n characters "x".
Xs(n) == [i \in 1..n |-> 120]

\* Inner texts: empty, one of exactly KeyTextLen characters, two that extend it
\* by a different character, and one that differs from them at the first.
InnerTexts ==
    {<<>>, Xs(KeyTextLen), Xs(KeyTextLen) \o <<121>>, Xs(KeyTextLen) \o <<122>>,
     <<121>> \o Xs(KeyTextLen - 1)}

\* One violation and those that differ from it in exactly one field.
BaseViolation == Violation(UrlA, "minor", "d1", "<a>", "", "", <<97>>, "a", <<>>)

KeyViolations ==
    {BaseViolation,
     [BaseViolation EXCEPT !.url = UrlC],
     [BaseViolation EXCEPT !.priority = "critical"],
     [BaseViolation EXCEPT !.description = "d2"],
     [BaseViolation EXCEPT !.element_html = "<a href>"],
     [BaseViolation EXCEPT !.element_id = "main"],
     [BaseViolation EXCEPT !.element_classes = "btn"],
     [BaseViolation EXCEPT !.rule_id = <<97, 98>>],
     [BaseViolation EXCEPT !.tag = "div"]}
    \cup {[BaseViolation EXCEPT !.inner_text = x] : x \in InnerTexts}

KeyLists(n) == UNION {[1..k -> KeyViolations] : k \in 0..n}

\* severity_rank.get(p, -1)
severity_rank(p) ==
    CASE p = "critical" -> 3
      [] p = "serious" -> 2
      [] p = "moderate" -> 1
      [] p = "minor" -> 0
      [] OTHER -> -1

\* A key that takes the whole inner text.
AggKeyFullText(v) ==
    <<v.rule_id, v.tag, v.element_id, v.element_classes, v.inner_text>>

\* The key of the aggregation map.
AggKey(v) ==
    <<v.rule_id, v.tag, v.element_id, v.element_classes,
      Prefix(v.inner_text, KeyTextLen)>>

\* A test that never finds the key: every violation opens an entry of its own.
HasKeyNever(agg, key) == FALSE

\* "key in agg"; agg is the map in insertion order, a sequence of entries.
HasKey(agg, key) == \E i \in DOMAIN agg : agg[i].key = key

KeyIndex(agg, key) == CHOOSE i \in DOMAIN agg : agg[i].key = key

\* The entry a first occurrence seeds.
SeedEntry(key, v) ==
    [key |-> key, priority |-> v.priority, description |-> v.description,
     element_id |-> v.element_id, element_classes |-> v.element_classes,
     rule_id |-> v.rule_id, tag |-> v.tag, inner_text |-> v.inner_text,
     urls |-> {}, element_html |-> v.element_html]

\* A set that keeps its first element only.
AddUrlFirstOnly(urls, u) == IF urls = {} THEN {u} ELSE urls

\* entry["urls"].add(url)
AddUrl(urls, u) == urls \cup {u}

\* A comparison that also lets an equal rank replace the priority.
WorseOrEqual(new_p, old_p) == severity_rank(new_p) >= severity_rank(old_p)

\* "severity_rank.get(new_p, -1) > severity_rank.get(old_p, -1)"
Worse(new_p, old_p) == severity_rank(new_p) > severity_rank(old_p)

\* A fold in which every violation of a key rewrites the texts of its entry.
FoldViolationRefreshes(agg, v) ==
    LET key == AggKey(v)
        agg1 == IF HasKey(agg, key) THEN agg ELSE Append(agg, SeedEntry(key, v))
        i == IF HasKey(agg, key) THEN KeyIndex(agg, key) ELSE Len(agg1)
        e1 == [agg1[i] EXCEPT !.urls = AddUrl(@, v.url),
                              !.description = v.description,
                              !.element_html = v.element_html,
                              !.inner_text = v.inner_text]
        e2 == IF Worse(v.priority, e1.priority)
              THEN [e1 EXCEPT !.priority = v.priority] ELSE e1
    IN  [agg1 EXCEPT ![i] = e2]

\* One iteration of the fold over raw_results.
FoldViolation(agg, v) ==
    LET key == AggKey(v)
        agg1 == IF HasKey(agg, key) THEN agg ELSE Append(agg, SeedEntry(key, v))
        i == IF HasKey(agg, key) THEN KeyIndex(agg, key) ELSE Len(agg1)
        e1 == [agg1[i] EXCEPT !.urls = AddUrl(@, v.url)]
        e2 == IF Worse(v.priority, e1.priority)
              THEN [e1 EXCEPT !.priority = v.priority] ELSE e1
    IN  [agg1 EXCEPT ![i] = e2]

RECURSIVE FoldFrom(_, _)
FoldFrom(agg, raw) ==
    IF raw = <<>> THEN agg ELSE FoldFrom(FoldViolation(agg, Head(raw)), Tail(raw))

\* sorted(entry["urls"])
RECURSIVE SortedUrls(_)
SortedUrls(S) ==
    IF S = {} THEN <<>>
    ELSE LET m == CHOOSE x \in S : \A y \in S : x = y \/ LexLess(x, y)
         IN  <<m>> \o SortedUrls(S \ {m})

\* The row of the summary table made of one entry.
Row(entry) ==
    LET urls_sorted == SortedUrls(entry.urls)
    IN  [error_id |-> entry.rule_id, priority |-> entry.priority,
         description |-> entry.description, element_id |-> entry.element_id,
         element_classes |-> entry.element_classes, tag |-> entry.tag,
         inner_text |-> entry.inner_text, urls |-> urls_sorted,
         url_count |-> Len(urls_sorted), element_html |-> entry.element_html]

\* A sort key that forgets the sign: least severe first.
SortKeyAscending(r) == <<severity_rank(r.priority), r.error_id>>

\* The sort key of a row: (-rank, error_id).
SortKey(r) == <<severity_rank(r.priority) * (-1), r.error_id>>

\* "<" of the key tuples.
SortKeyLess(k1, k2) ==
    \/ k1[1] < k2[1]
    \/ k1[1] = k2[1] /\ LexLess(k1[2], k2[2])

\* list.sort(key=...): stable, so a row goes behind the rows already placed
\* whose key is not greater.
RECURSIVE InsertRow(_, _)
InsertRow(sorted, r) ==
    IF sorted = <<>> THEN <<r>>
    ELSE IF SortKeyLess(SortKey(r), SortKey(Head(sorted)))
    THEN <<r>> \o sorted
    ELSE <<Head(sorted)>> \o InsertRow(Tail(sorted), r)

RECURSIVE SortRows(_, _)
SortRows(sorted, rows) ==
    IF rows = <<>> THEN sorted
    ELSE SortRows(InsertRow(sorted, Head(rows)), Tail(rows))

\* build_aggregated_results: fold, one row per entry in insertion order, sort.
build_aggregated_results(raw) ==
    LET agg == FoldFrom(<<>>, raw)
    IN  SortRows(<<>>, [i \in DOMAIN agg |-> Row(agg[i])])

-----------------------------------------------------------------------------
(* The Scanner: run_axe_scan *)

\* Longest URL queue a run is started with.
MaxUrls == 2

\* Most threads of run_scan_thread alive at once.
MaxWorkers == 2

\* The page URLs a queue is made of; a queue may name a page twice.
PageUrls == {UrlA, UrlC}

UrlLists(n) == UNION {[1..k -> PageUrls] : k \in 0..n}

\* "SCAN_ERROR"
ScanErrorId == <<83, 67, 65, 78, 95, 69, 82, 82, 79, 82>>

\* The items axe reports on a page: none, or two of different rules.
ScanItems(url) ==
    {<<>>,
     <<Violation(url, "critical", "d2", "<div>", "", "", <<97, 98>>, "div", <<>>),
       Violation(url, "moderate", "d1", "<a>", "", "", <<97>>, "a", <<>>)>>}

\* How a run of the browser ends: with the items collected, or with an
\* exception after some items were collected.
Outcome(k, it) == [kind |-> k, items |-> it]

ScanOutcomes(url) ==
    {Outcome(k, it) : k \in {"ok", "exception"}, it \in ScanItems(url)}

\* str(e) of the exception a scan of url ends with: the text names what went
\* wrong on that page, and the texts of two pages differ.
ErrorText(url) == IF url = UrlA THEN "ea" ELSE "ec"

\* f"SCAN ERROR: {e}"
ErrorDescription(e) == IF e = "ea" THEN "SCAN ERROR: ea" ELSE "SCAN ERROR: ec"

\* The record the except clause of run_axe_scan builds.
ScanError(url) ==
    Violation(url, "critical", ErrorDescription(ErrorText(url)), "", "", "",
              ScanErrorId, "", <<>>)

\* An except clause that hands back the items collected before the failure too.
run_axe_scan_keep_items(url, outcome) ==
    IF outcome.kind = "exception"
    THEN outcome.items \o <<ScanError(url)>>
    ELSE outcome.items

\* run_axe_scan: the items, or the one synthetic record when anything raised.
run_axe_scan(url, outcome) ==
    IF outcome.kind = "exception" THEN <<ScanError(url)>> ELSE outcome.items

-----------------------------------------------------------------------------
(* The window: widgets, handlers *)

Widgets(st, sv, ld, ex, vw, cn, pk) ==
    [start_btn |-> st, save_btn |-> sv, load_btn |-> ld, export_btn |-> ex,
     view_btn |-> vw, cancel_btn |-> cn, cancel_packed |-> pk]

\* The buttons as __init__ leaves them: view_btn disabled, cancel_btn hidden.
InitWidgets ==
    Widgets("normal", "normal", "normal", "normal", "disabled", "normal", FALSE)

\* A button runs its command when it is shown and not disabled.
Clickable(w, b) == w[b] = "normal"

CancelClickable(w) == w.cancel_btn = "normal" /\ w.cancel_packed

\* A thread of run_scan_thread: its program counter, its argument urls, the
\* index i of the loop, the batch still to append, the local map agg of
\* build_aggregated_results and the local cancelled.
Worker(pc, urls, i, v, agg, c) ==
    [pc |-> pc, urls |-> urls, i |-> i, violations |-> v, agg |-> agg,
     cancelled |-> c]

NewWorker(urls) == Worker("check", urls, 1, <<>>, <<>>, FALSE)

\* The statements of run_scan_thread up to the end of build_aggregated_results.
LoopPcs == {"check", "scan", "append", "progress"}
AggregatePcs == {"exit", "fold", "reset", "rows", "sort", "table"}
\* The statements of set_scanning_state(False), the last call of the thread.
TailPcs == {"flag", "b_start", "b_rest"}

NoCancel == [pc |-> "none", i |-> 0]

progress_bar(v, m) == [value |-> v, maximum |-> m]

\* dict.get(k, d)
HasField(r, k) == k \in DOMAIN r
Get(r, k, d) == IF HasField(r, k) THEN r[k] ELSE d

\* r[k] = v
SetKey(r, k, v) == [x \in DOMAIN r \cup {k} |-> IF x = k THEN v ELSE r[x]]

\* A JSON object without some of its keys.
DropKeys(r, ks) == [x \in DOMAIN r \ ks |-> r[x]]

\* The window after construction: nothing scanned, no thread.
InitScan ==
    /\ is_scanning = FALSE
    /\ cancel_requested = FALSE
    /\ progress = progress_bar(0, 0)
    /\ status_label = ""
    /\ widgets = InitWidgets
    /\ comp_table = 0
    /\ selection = 0
    /\ workers = <<>>
    /\ lastOp = "init"
    /\ scanned = <<>>
    /\ cancelPoint = NoCancel
    /\ overlap = FALSE

\* set_scanning_state(True), on the widgets.
ScanningWidgets ==
    Widgets("disabled", "disabled", "disabled", "disabled", "disabled", "normal", TRUE)

\* A start_scan without its first test: the lists are cleared in mid-run.
StartRejectedClears ==
    /\ is_scanning
    /\ UNCHANGED sitemapVars
    /\ raw_results' = <<>>
    /\ results' = <<>>
    /\ lastOp' = "start_rejected"
    /\ UNCHANGED <<is_scanning, cancel_requested, progress, status_label, widgets,
                   comp_table, selection, workers, scanned, cancelPoint, overlap>>

\* start_scan while a run is on: "if self.is_scanning: return".  The request
\* is taken whatever the state of start_btn: it changes nothing.
StartRejected ==
    /\ is_scanning
    /\ UNCHANGED sitemapVars
    /\ lastOp' = "start_rejected"
    /\ UNCHANGED <<raw_results, results, is_scanning, cancel_requested, progress,
                   status_label, widgets, comp_table, selection, workers,
                   scanned, cancelPoint, overlap>>

\* A start_scan without the check "if not urls": the run starts on no URL.
StartNoUrlsRuns ==
    /\ Clickable(widgets, "start_btn")
    /\ UNCHANGED sitemapVars
    /\ ~is_scanning
    /\ Len(workers) < MaxWorkers
    /\ raw_results' = <<>>
    /\ results' = <<>>
    /\ comp_table' = 0
    /\ selection' = 0
    /\ progress' = progress_bar(0, 0)
    /\ status_label' = "Starting scan..."
    /\ is_scanning' = TRUE
    /\ widgets' = ScanningWidgets
    /\ cancel_requested' = FALSE
    /\ workers' = Append(workers, NewWorker(<<>>))
    /\ lastOp' = "start_no_urls"
    /\ UNCHANGED <<scanned, cancelPoint, overlap>>

\* start_scan with no URL to scan: the lists and the tables are cleared, an
\* error box is shown, and the handler returns.
StartNoUrls ==
    /\ Clickable(widgets, "start_btn")
    /\ UNCHANGED sitemapVars
    /\ ~is_scanning
    /\ raw_results' = <<>>
    /\ results' = <<>>
    /\ comp_table' = 0
    /\ selection' = 0
    /\ widgets' = [widgets EXCEPT !.view_btn = "disabled"]
    /\ lastOp' = "start_no_urls"
    /\ UNCHANGED <<is_scanning, cancel_requested, progress, status_label,
                   workers, scanned, cancelPoint, overlap>>

\* A set_scanning_state(True) that leaves cancel_requested as it is.
StartRunKeepsFlag(urls) ==
    /\ Clickable(widgets, "start_btn")
    /\ UNCHANGED sitemapVars
    /\ ~is_scanning
    /\ urls # <<>>
    /\ Len(workers) < MaxWorkers
    /\ raw_results' = <<>>
    /\ results' = <<>>
    /\ comp_table' = 0
    /\ selection' = 0
    /\ progress' = progress_bar(0, Len(urls))
    /\ status_label' = "Starting scan..."
    /\ is_scanning' = TRUE
    /\ widgets' = ScanningWidgets
    /\ UNCHANGED cancel_requested
    /\ workers' = Append(workers, NewWorker(urls))
    /\ lastOp' = "start"
    /\ scanned' = <<>>
    /\ cancelPoint' = NoCancel
    /\ overlap' = (workers # <<>>)

\* start_scan with URLs: clear, reset the progress bar, set_scanning_state(True)
\* and start the thread.
StartRun(urls) ==
    /\ Clickable(widgets, "start_btn")
    /\ UNCHANGED sitemapVars
    /\ ~is_scanning
    /\ urls # <<>>
    /\ Len(workers) < MaxWorkers
    /\ raw_results' = <<>>
    /\ results' = <<>>
    /\ comp_table' = 0
    /\ selection' = 0
    /\ progress' = progress_bar(0, Len(urls))
    /\ status_label' = "Starting scan..."
    /\ is_scanning' = TRUE
    /\ widgets' = ScanningWidgets
    /\ cancel_requested' = FALSE
    /\ workers' = Append(workers, NewWorker(urls))
    /\ lastOp' = "start"
    /\ scanned' = <<>>
    /\ cancelPoint' = NoCancel
    /\ overlap' = (workers # <<>>)

start_scan ==
    \/ StartRejected
    \/ StartNoUrls
    \/ \E urls \in UrlLists(MaxUrls) : StartRun(urls)

\* The thread whose loop a cancel request reaches: the one started last.
CurrentWorker == workers[Len(workers)]

\* A cancel_scan without its test: the flag is set outside a run too.
CancelIgnoredSetsFlag ==
    /\ ~is_scanning
    /\ UNCHANGED sitemapVars
    /\ cancel_requested' = TRUE
    /\ lastOp' = "cancel_ignored"
    /\ UNCHANGED <<raw_results, results, is_scanning, progress, status_label,
                   widgets, comp_table, selection, workers, scanned, cancelPoint, overlap>>

\* cancel_scan outside a run: "if not self.is_scanning: return".  The request
\* is taken whatever the state of cancel_btn: it changes nothing.
CancelIgnored ==
    /\ ~is_scanning
    /\ UNCHANGED sitemapVars
    /\ lastOp' = "cancel_ignored"
    /\ UNCHANGED <<raw_results, results, is_scanning, cancel_requested, progress,
                   status_label, widgets, comp_table, selection, workers,
                   scanned, cancelPoint, overlap>>

\* cancel_scan in a run: set the flag, disable the button.
CancelAccepted ==
    /\ CancelClickable(widgets)
    /\ UNCHANGED sitemapVars
    /\ is_scanning
    /\ cancel_requested' = TRUE
    /\ widgets' = [widgets EXCEPT !.cancel_btn = "disabled"]
    /\ lastOp' = "cancel"
    /\ cancelPoint' = IF cancelPoint = NoCancel
                      THEN IF CurrentWorker.pc = "check"
                           THEN [pc |-> "check", i |-> CurrentWorker.i]
                           ELSE [pc |-> "other", i |-> CurrentWorker.i]
                      ELSE cancelPoint
    /\ UNCHANGED <<raw_results, results, is_scanning, progress, status_label,
                   comp_table, selection, workers, scanned, overlap>>

cancel_scan == CancelIgnored \/ CancelAccepted

\* save_scan, run by save_btn: an error box when there is nothing to save,
\* else both lists are written to the file; the window keeps its state.
save_scan ==
    /\ Clickable(widgets, "save_btn")
    /\ UNCHANGED sitemapVars
    /\ UNCHANGED <<lastOp, raw_results, results, is_scanning, cancel_requested, progress,
                   status_label, widgets, comp_table, selection, workers,
                   scanned, cancelPoint, overlap>>

\* export_excel, run by export_btn: the same test, then both lists are read.
export_excel ==
    /\ Clickable(widgets, "export_btn")
    /\ UNCHANGED sitemapVars
    /\ UNCHANGED <<lastOp, raw_results, results, is_scanning, cancel_requested, progress,
                   status_label, widgets, comp_table, selection, workers,
                   scanned, cancelPoint, overlap>>

\* view_details, run by view_btn: reads results[idx] of the selected row.
view_details ==
    /\ Clickable(widgets, "view_btn")
    /\ UNCHANGED sitemapVars
    /\ UNCHANGED <<lastOp, raw_results, results, is_scanning, cancel_requested, progress,
                   status_label, widgets, comp_table, selection, workers,
                   scanned, cancelPoint, overlap>>

\* The view_btn state on_comp_select chooses.
ViewState(scanning, sel) ==
    IF scanning THEN "disabled" ELSE IF sel # 0 THEN "normal" ELSE "disabled"

\* The user selects the first row of the summary table: on_comp_select runs.
on_comp_select ==
    /\ comp_table >= 1
    /\ UNCHANGED sitemapVars
    /\ selection' = 1
    /\ widgets' = [widgets EXCEPT !.view_btn = ViewState(is_scanning, selection')]
    /\ lastOp' = "select"
    /\ UNCHANGED <<raw_results, results, is_scanning, cancel_requested, progress,
                   status_label, comp_table, workers, scanned, cancelPoint, overlap>>

\* The raw list and the rows of the persisted scans: one issue on two pages.
SavedRaw ==
    <<Violation(UrlA, "minor", "d1", "<a>", "", "", <<97>>, "a", <<>>),
      Violation(UrlC, "minor", "d1", "<a>", "", "", <<97>>, "a", <<>>)>>

SavedRows == build_aggregated_results(SavedRaw)

\* The files load_scan may be given: a scan as save_scan wrote it, one whose
\* rows lack url_count, the second urls too, and one that lacks "results".
SavedFiles ==
    {[results |-> SavedRows, raw_results |-> SavedRaw],
     [results |-> <<DropKeys(SavedRows[1], {"url_count"}),
                    DropKeys(SavedRows[1], {"url_count", "urls"})>>,
      raw_results |-> SavedRaw],
     [raw_results |-> SavedRaw]}

\* A recount that ignores the urls of the row.
RecomputedCountZero(r) == 0

\* len(r.get("urls", []))
RecomputedCount(r) == Len(Get(r, "urls", <<>>))

\* The row load_scan keeps: url_count is recomputed when the row has none.
LoadRow(r) ==
    IF HasField(r, "url_count") THEN r
    ELSE SetKey(r, "url_count", RecomputedCount(r))

\* load_scan, run by load_btn, with the file the dialog returns.
LoadFile(data) ==
    /\ UNCHANGED sitemapVars
    /\ results' = [i \in DOMAIN Get(data, "results", <<>>) |->
                      LoadRow(Get(data, "results", <<>>)[i])]
    /\ raw_results' = Get(data, "raw_results", <<>>)
    /\ comp_table' = Len(results')
    /\ selection' = 0
    /\ widgets' = [widgets EXCEPT !.view_btn = "disabled"]
    /\ lastOp' = "load"
    /\ UNCHANGED <<is_scanning, cancel_requested, progress, status_label,
                   workers, scanned, cancelPoint, overlap>>

\* The dialog closed without a file: load_scan returns.
LoadCancelled ==
    /\ UNCHANGED sitemapVars
    /\ UNCHANGED <<lastOp, raw_results, results, is_scanning, cancel_requested, progress,
                   status_label, widgets, comp_table, selection, workers,
                   scanned, cancelPoint, overlap>>

load_scan ==
    /\ Clickable(widgets, "load_btn")
    /\ \/ LoadCancelled
       \/ \E data \in SavedFiles : LoadFile(data)

-----------------------------------------------------------------------------
(* The worker: run_scan_thread, one statement at a time *)

SetWorker(k, w) == [workers EXCEPT ![k] = w]

RemoveWorker(k) == SubSeq(workers, 1, k - 1) \o SubSeq(workers, k + 1, Len(workers))

\* A loop that does not look at cancel_requested.
WorkerCheckNoCancel(k) ==
    LET w == workers[k]
    IN  /\ w.pc = "check"
        /\ UNCHANGED sitemapVars
        /\ IF w.i > Len(w.urls)
           THEN /\ workers' = SetWorker(k, [w EXCEPT !.pc = "exit"])
                /\ UNCHANGED status_label
           ELSE /\ workers' = SetWorker(k, [w EXCEPT !.pc = "scan"])
                /\ status_label' = "Scanning"
        /\ lastOp' = "worker"
        /\ UNCHANGED <<raw_results, results, is_scanning, cancel_requested,
                       progress, widgets, comp_table, selection,
                       scanned, cancelPoint, overlap>>

\* The head of the loop: the queue is exhausted, or the flag is seen, or the
\* scan of urls[i] begins.
WorkerCheck(k) ==
    LET w == workers[k]
    IN  /\ w.pc = "check"
        /\ UNCHANGED sitemapVars
        /\ IF w.i > Len(w.urls)
           THEN /\ workers' = SetWorker(k, [w EXCEPT !.pc = "exit"])
                /\ lastOp' = "worker"
                /\ UNCHANGED status_label
           ELSE IF cancel_requested
           THEN /\ workers' = SetWorker(k, [w EXCEPT !.pc = "exit"])
                /\ lastOp' = "worker"
                /\ UNCHANGED status_label
           ELSE /\ workers' = SetWorker(k, [w EXCEPT !.pc = "scan"])
                /\ lastOp' = "worker"
                /\ status_label' = "Scanning"
        /\ UNCHANGED <<raw_results, results, is_scanning, cancel_requested,
                       progress, widgets, comp_table, selection,
                       scanned, cancelPoint, overlap>>

\* run_axe_scan(url) returns its batch.
WorkerScan(k) ==
    LET w == workers[k]
    IN  /\ w.pc = "scan"
        /\ UNCHANGED sitemapVars
        /\ \E outcome \in ScanOutcomes(w.urls[w.i]) :
              LET violations == run_axe_scan(w.urls[w.i], outcome)
              IN  /\ workers' = SetWorker(k, [w EXCEPT !.pc = "append",
                                                       !.violations = violations])
                  /\ scanned' = Append(scanned,
                                       [i |-> w.i, url |-> w.urls[w.i],
                                        failed |-> outcome.kind = "exception",
                                        batch |-> violations])
        /\ lastOp' = "worker"
        /\ UNCHANGED <<raw_results, results, is_scanning, cancel_requested,
                       progress, status_label, widgets, comp_table, selection,
                       cancelPoint, overlap>>

\* "self.raw_results.append(v)" for the next record of the batch.
WorkerAppend(k) ==
    LET w == workers[k]
    IN  /\ w.pc = "append"
        /\ UNCHANGED sitemapVars
        /\ w.violations # <<>>
        /\ raw_results' = Append(raw_results, Head(w.violations))
        /\ workers' = SetWorker(k, [w EXCEPT !.violations = Tail(@)])
        /\ lastOp' = "worker"
        /\ UNCHANGED <<results, is_scanning, cancel_requested, progress,
                       status_label, widgets, comp_table, selection,
                       scanned, cancelPoint, overlap>>

\* A loop that goes on to the next URL without a word to the progress bar.
WorkerProgressSilent(k) ==
    LET w == workers[k]
    IN  /\ w.pc = "append"
        /\ UNCHANGED sitemapVars
        /\ w.violations = <<>>
        /\ workers' = SetWorker(k, [w EXCEPT !.pc = "check", !.i = @ + 1])
        /\ lastOp' = "worker"
        /\ UNCHANGED <<raw_results, results, is_scanning, cancel_requested,
                       progress, status_label, widgets, comp_table, selection,
                       scanned, cancelPoint, overlap>>

\* "self.progress["value"] = i", and on to the next URL.
WorkerProgress(k) ==
    LET w == workers[k]
    IN  /\ w.pc = "append"
        /\ UNCHANGED sitemapVars
        /\ w.violations = <<>>
        /\ progress' = [progress EXCEPT !.value = w.i]
        /\ workers' = SetWorker(k, [w EXCEPT !.pc = "check", !.i = @ + 1])
        /\ lastOp' = "worker"
        /\ UNCHANGED <<raw_results, results, is_scanning, cancel_requested,
                       status_label, widgets, comp_table, selection,
                       scanned, cancelPoint, overlap>>

\* After the loop: "cancelled = self.cancel_requested" and the status text.
WorkerExit(k) ==
    LET w == workers[k]
    IN  /\ w.pc = "exit"
        /\ UNCHANGED sitemapVars
        /\ workers' = SetWorker(k, [w EXCEPT !.pc = "fold",
                                             !.cancelled = cancel_requested])
        /\ status_label' = IF cancel_requested THEN "Scan cancelled."
                           ELSE "Scan complete."
        /\ lastOp' = "worker"
        /\ UNCHANGED <<raw_results, results, is_scanning, cancel_requested,
                       progress, widgets, comp_table, selection,
                       scanned, cancelPoint, overlap>>

\* build_aggregated_results: the fold over raw_results into the local agg.
WorkerFold(k) ==
    LET w == workers[k]
    IN  /\ w.pc = "fold"
        /\ UNCHANGED sitemapVars
        /\ workers' = SetWorker(k, [w EXCEPT !.pc = "reset",
                                             !.agg = FoldFrom(<<>>, raw_results)])
        /\ lastOp' = "worker"
        /\ UNCHANGED <<raw_results, results, is_scanning, cancel_requested,
                       progress, status_label, widgets, comp_table, selection,
                       scanned, cancelPoint, overlap>>

\* "self.results = []" and the summary table emptied.
WorkerReset(k) ==
    LET w == workers[k]
    IN  /\ w.pc = "reset"
        /\ UNCHANGED sitemapVars
        /\ results' = <<>>
        /\ comp_table' = 0
        /\ selection' = 0
        /\ workers' = SetWorker(k, [w EXCEPT !.pc = "rows"])
        /\ lastOp' = "worker"
        /\ UNCHANGED <<raw_results, is_scanning, cancel_requested, progress,
                       status_label, widgets, scanned, cancelPoint, overlap>>

\* One row appended to self.results for every entry of agg.
WorkerRows(k) ==
    LET w == workers[k]
    IN  /\ w.pc = "rows"
        /\ UNCHANGED sitemapVars
        /\ results' = results \o [i \in DOMAIN w.agg |-> Row(w.agg[i])]
        /\ workers' = SetWorker(k, [w EXCEPT !.pc = "sort", !.agg = <<>>])
        /\ lastOp' = "worker"
        /\ UNCHANGED <<raw_results, is_scanning, cancel_requested, progress,
                       status_label, widgets, comp_table, selection,
                       scanned, cancelPoint, overlap>>

\* "self.results.sort(...)"
WorkerSort(k) ==
    LET w == workers[k]
    IN  /\ w.pc = "sort"
        /\ UNCHANGED sitemapVars
        /\ results' = SortRows(<<>>, results)
        /\ workers' = SetWorker(k, [w EXCEPT !.pc = "table"])
        /\ lastOp' = "worker"
        /\ UNCHANGED <<raw_results, is_scanning, cancel_requested, progress,
                       status_label, widgets, comp_table, selection,
                       scanned, cancelPoint, overlap>>

\* The rows inserted into the summary table; populate_raw_table follows.
WorkerTable(k) ==
    LET w == workers[k]
    IN  /\ w.pc = "table"
        /\ UNCHANGED sitemapVars
        /\ comp_table' = comp_table + Len(results)
        /\ workers' = SetWorker(k, [w EXCEPT !.pc = "flag"])
        /\ lastOp' = "worker"
        /\ UNCHANGED <<raw_results, results, is_scanning, cancel_requested,
                       progress, status_label, widgets, selection,
                       scanned, cancelPoint, overlap>>

\* A set_scanning_state(False) that leaves is_scanning as it is.
WorkerFlagKeepsFlag(k) ==
    LET w == workers[k]
    IN  /\ w.pc = "flag"
        /\ UNCHANGED sitemapVars
        /\ workers' = SetWorker(k, [w EXCEPT !.pc = "b_start"])
        /\ lastOp' = "worker"
        /\ UNCHANGED <<raw_results, results, is_scanning, cancel_requested,
                       progress, status_label, widgets, comp_table, selection,
                       scanned, cancelPoint, overlap>>

\* set_scanning_state(False): "self.is_scanning = scanning".
WorkerFlag(k) ==
    LET w == workers[k]
    IN  /\ w.pc = "flag"
        /\ UNCHANGED sitemapVars
        /\ is_scanning' = FALSE
        /\ workers' = SetWorker(k, [w EXCEPT !.pc = "b_start"])
        /\ lastOp' = "worker"
        /\ UNCHANGED <<raw_results, results, cancel_requested, progress,
                       status_label, widgets, comp_table, selection,
                       scanned, cancelPoint, overlap>>

\* set_scanning_state(False): start_btn set back to "normal".
WorkerEnable(k) ==
    LET w == workers[k]
    IN  /\ w.pc = "b_start"
        /\ UNCHANGED sitemapVars
        /\ widgets' = [widgets EXCEPT !.start_btn = "normal"]
        /\ workers' = SetWorker(k, [w EXCEPT !.pc = "b_rest"])
        /\ lastOp' = "worker"
        /\ UNCHANGED <<raw_results, results, is_scanning, cancel_requested,
                       progress, status_label, comp_table, selection,
                       scanned, cancelPoint, overlap>>

\* set_scanning_state(False), its statements after start_btn: the other
\* buttons set back to "normal", cancel_btn hidden, on_comp_select; and the
\* thread ends.  No handler that could run between these statements leaves a
\* trace a later start would not erase, so they are taken in one step.
WorkerEnd(k) ==
    LET w == workers[k]
    IN  /\ w.pc = "b_rest"
        /\ UNCHANGED sitemapVars
        /\ widgets' = [widgets EXCEPT !.save_btn = "normal",
                                      !.load_btn = "normal",
                                      !.export_btn = "normal",
                                      !.cancel_packed = FALSE,
                                      !.view_btn = ViewState(is_scanning, selection)]
        /\ workers' = RemoveWorker(k)
        /\ lastOp' = "worker"
        /\ UNCHANGED <<raw_results, results, is_scanning, cancel_requested,
                       progress, status_label, comp_table, selection,
                       scanned, cancelPoint, overlap>>

run_scan_thread(k) ==
    \/ WorkerCheck(k)
    \/ WorkerScan(k)
    \/ WorkerAppend(k)
    \/ WorkerProgress(k)
    \/ WorkerExit(k)
    \/ WorkerFold(k)
    \/ WorkerReset(k)
    \/ WorkerRows(k)
    \/ WorkerSort(k)
    \/ WorkerTable(k)
    \/ WorkerFlag(k)
    \/ WorkerEnable(k)
    \/ WorkerEnd(k)

-----------------------------------------------------------------------------
(* The specifications *)

\* The resolver at rest.
TraversalIdle ==
    /\ visited = {}
    /\ page_urls = <<>>
    /\ stack = <<>>
    /\ returned = FALSE
    /\ result = <<>>
    /\ raised = FALSE
    /\ root_url = UrlA
    /\ lastStep = "start"
    /\ fetchCount = [u \in Urls |-> 0]
    /\ failed = {}
    /\ scheduled = {}
    /\ listed = {}
    /\ firstPath = [u \in Urls |-> <<>>]

SitemapIdle == TraversalIdle /\ xml_text = None /\ calls = <<>>

AggIdle == raw_results = <<>> /\ results = <<>>

\* The sitemap resolver alone.
InitS == InitSitemap /\ AggIdle /\ InitScan

SpecSitemap == InitS /\ [][NextSitemap]_vars

\* The interpreter runs the traversal on: every fetch returns.
SpecSitemapFair == SpecSitemap /\ WF_vars(NextSitemap)

\* One call of _walk on one text, whatever the text.
InitParse ==
    /\ TraversalIdle
    /\ AggIdle
    /\ InitScan
    /\ xml_text \in ParseTexts
    /\ calls = <<>>

NextParse == WalkDocument

SpecParse == InitParse /\ [][NextParse]_vars

\* The aggregator alone, on every raw list of the bound.
InitAgg ==
    /\ SitemapIdle
    /\ InitScan
    /\ raw_results \in RawLists(MaxRaw)
    /\ results = <<>>

\* The aggregation run on the raw list as it stands.
Aggregate ==
    /\ results' = build_aggregated_results(raw_results)
    /\ UNCHANGED raw_results
    /\ UNCHANGED sitemapVars
    /\ UNCHANGED scanVars

NextAgg == Aggregate

SpecAgg == InitAgg /\ [][NextAgg]_vars

\* The aggregator on raw lists whose violations differ in one field at a time.
InitKey ==
    /\ SitemapIdle
    /\ InitScan
    /\ raw_results \in KeyLists(MaxRaw)
    /\ results = <<>>

SpecKey == InitKey /\ [][NextAgg]_vars

\* The window and its workers.
Init == SitemapIdle /\ AggIdle /\ InitScan

Next ==
    \/ start_scan
    \/ cancel_scan
    \/ save_scan
    \/ export_excel
    \/ view_details
    \/ on_comp_select
    \/ load_scan
    \/ \E k \in DOMAIN workers : run_scan_thread(k)

Spec == Init /\ [][Next]_vars

\* A thread that can take its next statement takes it in the end: the
\* interpreter schedules every live thread, and every call of the Scanner
\* returns, with its items or with an exception.
WorkerStep == \E k \in DOMAIN workers : run_scan_thread(k)

\* The runs alone: start, cancel and the threads, the user leaving the other
\* buttons and the table alone.
NextRun == start_scan \/ cancel_scan \/ WorkerStep

SpecRun == Init /\ [][NextRun]_vars

SpecRunFair == SpecRun /\ WF_vars(WorkerStep)

-----------------------------------------------------------------------------
(* Properties of the sitemap resolver *)

\* The call at path fp (entry fp[k] of its parent) is followed, in the same
\* parent, by a later entry through which the page at path pp was collected.
ReachedThroughLaterSibling(fp, pp) ==
    LET k == Len(fp) - 1
    IN  /\ k >= 1
        /\ Len(pp) > k
        /\ SubSeq(pp, 1, k - 1) = SubSeq(fp, 1, k - 1)
        /\ pp[k] > fp[k]

\* The work left to a run: the URLs not yet entered, each worth more than the
\* largest loop it can open, then one unit per frame and two per pending
\* iteration, then the return itself.
RECURSIVE StackWork(_)
StackWork(stk) ==
    IF stk = <<>> THEN 0
    ELSE 1 + 2 * Len(Head(stk).rest) + StackWork(Tail(stk))

WorkLeft ==
    (2 * MaxEntries + 1) * Cardinality(Urls \ visited)
    + StackWork(stack)
    + (IF returned THEN 0 ELSE 1)

\* C1: for every sitemap graph, cyclic and self-referential ones included, the
\* traversal eventually returns a result, every fetch returning: each step
\* lessens the work left, and the run reaches its return.
C1_Terminates == [][WorkLeft' < WorkLeft]_vars /\ <>(returned /\ ~raised)

\* A run returned although a node reachable from the root refers back to the root.
C1_Witness == returned /\ ~raised /\ root_url \in scheduled

\* C2: within one run each sitemap URL is fetched at most once, whether the
\* fetch succeeded or failed and however many nodes refer to it.
C2_FetchedAtMostOnce == \A u \in Urls : fetchCount[u] <= 1

\* A second reference to a URL fetched before has just been pruned.
C2_Witness ==
    /\ lastStep = "skip_visited"
    /\ \E u \in Urls : fetchCount[u] = 1
    /\ stack # <<>>

\* C3: the collected list never holds a page URL twice and only grows at its
\* end, so every page URL keeps the position of its first occurrence; the list
\* returned is that list.
C3_NoDuplicatesFirstSeen ==
    [][/\ NoDuplicates(page_urls')
       /\ IsPrefix(page_urls, page_urls')
       /\ (returned' => result' = page_urls')]_vars

\* A page URL already collected has just been listed again.
C3_Witness == lastStep = "add_seen" /\ Len(page_urls) >= 2

\* C4: the collected list is in depth-first document order: of two page URLs
\* the one first reached earlier in document order (through an earlier child,
\* or earlier in the same document) comes first; the list returned is not
\* reordered.
C4_DepthFirstDocumentOrder ==
    /\ \A i, j \in DOMAIN page_urls :
          i < j => LexLess(firstPath[page_urls[i]], firstPath[page_urls[j]])
    /\ returned => result = page_urls

\* A run returned three pages, two through the first child of the root and, after
\* them, one through its second child.
C4_Witness ==
    /\ returned
    /\ Len(result) = 3
    /\ Len(firstPath[result[1]]) = 2
    /\ firstPath[result[1]][1] = 1
    /\ firstPath[result[2]][1] = 1
    /\ firstPath[result[3]][1] = 2

\* C5: a failed fetch abandons the branch of that node only: the callers'
\* frames, with the siblings still to visit, and the pages collected so far are
\* kept; at the return every child a parsed index listed has been entered and
\* every page a parsed document listed is in the result.
C5_FailureAbandonsBranchOnly ==
    [][/\ lastStep' = "fetch_failed" =>
             /\ stack' = Pop(stack)
             /\ page_urls' = page_urls
             /\ ~raised'
             /\ ~returned'
       /\ returned' => /\ scheduled' \subseteq visited'
                       /\ listed' \subseteq Range(result')]_vars

\* A run returned a page reached through a sibling listed after a node whose
\* fetch failed.
C5_Witness ==
    /\ returned
    /\ \E fp \in failed : \E i \in DOMAIN result :
          ReachedThroughLaterSibling(fp, firstPath[result[i]])

\* C6: no exception leaves extract_urls_from_sitemap, and it returns the empty
\* list when the fetch of the root failed and when no fetched node listed a page
\* (no recognised format, or only empty nodes).
C6_EmptyListNeverAnError ==
    /\ ~raised
    /\ returned /\ <<0>> \in failed => result = <<>>
    /\ returned /\ listed = {} => result = <<>>

\* A run whose root could not be fetched returned the empty list.
C6_Witness == returned /\ <<0>> \in failed /\ result = <<>>

\* The URLs _walk was entered on and went on to fetch: the sitemap documents
\* the traversal recursed into, the root among them.
RecursedInto == visited

\* C31: the result is exactly the set of page URLs the fetched nodes listed:
\* it omits none of them, and it contains no URL of a sitemap document that
\* the traversal recursed into.
C31_ResultIsPagesOnly ==
    returned => /\ Range(result) = listed
                /\ Range(result) \cap RecursedInto = {}

\* The result is exactly the set of non-empty locations the fetched nodes
\* listed for collection, whether or not one of them is also the URL of a
\* sitemap document.
C31_ResultIsListed ==
    returned => /\ Range(result) = listed
                /\ NoDuplicates(result)

\* A run without a failed fetch returned the URL of a sitemap document it had
\* fetched, which a fetched node lists as a page, next to a page.
C31_Witness ==
    /\ returned
    /\ failed = {}
    /\ result = <<UrlC, UrlB>>
    /\ UrlB \in RecursedInto
    /\ fetchCount[UrlB] = 1

-----------------------------------------------------------------------------
(* Properties of one call of _walk *)

\* The stripped, non-empty locations of the entries, in document order.
RECURSIVE Locations(_)
Locations(entries) ==
    IF entries = <<>> THEN <<>>
    ELSE IF Head(entries) = <<>> \/ Strip(Head(entries)[1]) = <<>>
    THEN Locations(Tail(entries))
    ELSE <<Strip(Head(entries)[1])>> \o Locations(Tail(entries))

\* A call of _walk on each location, in order, and no other call.
WalkEach(locs) == [i \in DOMAIN locs |-> Act("walk", locs[i])]

\* The structured extraction selects <sitemap> elements and <url> elements,
\* and each selection has a location.
YieldsBoth(x) ==
    /\ x.fmt = "xml"
    /\ x.pandas
    /\ \E i \in DOMAIN x.sitemaps : x.sitemaps[i] # <<>>
    /\ \E i \in DOMAIN x.urls : x.urls[i] # <<>>

\* C28: a document whose structured extraction yields sitemap entries with a
\* location and url entries with a location is walked as an index: _walk is
\* called on every location of its sitemap entries, in order, and
\* add_page_url on none of its url locations.
C28_IndexBeforeUrlset ==
    lastStep = "document" /\ YieldsBoth(xml_text) =>
        /\ calls = WalkEach(Locations(xml_text.sitemaps))
        /\ \A i \in DOMAIN calls : calls[i].op # "add"

\* A document with two child sitemaps and two pages was walked: two calls of
\* _walk, one of them on a location without the .xml suffix.
C28_Witness ==
    /\ lastStep = "document"
    /\ YieldsBoth(xml_text)
    /\ Len(Locations(xml_text.urls)) = 2
    /\ calls = <<Act("walk", UrlC), Act("walk", UrlA)>>

\* The fallback path has found a root that signifies an index.
FallbackIndex(x) == ParseSitemap(x).mode = "bs4index"

\* C29: in the fallback path a document whose root signifies an index has
\* _walk called on every non-empty location of its children, in order, as the
\* structured path does, whatever the suffix of the location.
C29_FallbackIndexWalksEveryChild ==
    lastStep = "document" /\ FallbackIndex(xml_text) =>
        /\ calls = WalkEach(Locations(xml_text.sitemaps))
        /\ calls = LoopPlan("index", DropNa(xml_text.sitemaps))

\* The locations that end in ".xml".
RECURSIVE XmlSuffixOnly(_)
XmlSuffixOnly(locs) ==
    IF locs = <<>> THEN <<>>
    ELSE IF EndsWith(Head(locs), DotXml)
    THEN <<Head(locs)>> \o XmlSuffixOnly(Tail(locs))
    ELSE XmlSuffixOnly(Tail(locs))

\* What holds of C29: the fallback path calls _walk on the children whose
\* location ends in ".xml", in order, and on no other.
C29_FallbackIndexWalksXmlChildren ==
    lastStep = "document" /\ FallbackIndex(xml_text) =>
        calls = WalkEach(XmlSuffixOnly(Locations(xml_text.sitemaps)))

\* A fallback index with the children "c" and "a.xml" was walked: _walk was
\* called on "a.xml" only, where the structured path calls it on both.
C29_Witness ==
    /\ lastStep = "document"
    /\ FallbackIndex(xml_text)
    /\ Locations(xml_text.sitemaps) = <<UrlC, UrlA>>
    /\ calls = <<Act("walk", UrlA)>>
    /\ LoopPlan("index", DropNa(xml_text.sitemaps))
         = <<Act("walk", UrlC), Act("walk", UrlA)>>

-----------------------------------------------------------------------------
(* Properties of the violation aggregator *)

\* The aggregation key a row stands for.
RowKey(r) ==
    <<r.error_id, r.tag, r.element_id, r.element_classes,
      Prefix(r.inner_text, KeyTextLen)>>

\* The positions of the raw violations of a key.
Group(raw, key) == {i \in DOMAIN raw : AggKey(raw[i]) = key}

MaxRank(raw, g) ==
    CHOOSE m \in {severity_rank(raw[i].priority) : i \in g} :
        \A i \in g : severity_rank(raw[i].priority) <= m

FirstOfRank(raw, g, m) ==
    CHOOSE i \in g :
        /\ severity_rank(raw[i].priority) = m
        /\ \A j \in g : severity_rank(raw[j].priority) = m => i <= j

\* C7: aggregating the raw list replayed twice yields exactly the rows, in the
\* same order, that aggregating the raw list yielded, and so does aggregating
\* the unchanged raw list again.
C7_ReplayIdempotent ==
    results # <<>> =>
        /\ build_aggregated_results(raw_results \o raw_results) = results
        /\ build_aggregated_results(raw_results) = results

\* An aggregation of three violations that merged some of them into one row.
C7_Witness ==
    /\ Len(raw_results) = 3
    /\ Len(results) = 2
    /\ \E k \in DOMAIN results : results[k].url_count = 2

\* C8: the priority of a row has the highest rank among the raw violations of
\* its key, and it is the priority of the first of them that has that rank: an
\* equal or lower rank never replaces it.
C8_PriorityIsMaxRank ==
    \A k \in DOMAIN results :
        LET g == Group(raw_results, RowKey(results[k]))
        IN  /\ g # {}
            /\ severity_rank(results[k].priority) = MaxRank(raw_results, g)
            /\ results[k].priority =
                   raw_results[FirstOfRank(raw_results, g,
                                           MaxRank(raw_results, g))].priority

\* One key fed minor, critical, moderate, in that order, resolved to critical.
C8_Witness ==
    /\ Len(raw_results) = 3
    /\ raw_results[1].priority = "minor"
    /\ raw_results[2].priority = "critical"
    /\ raw_results[3].priority = "moderate"
    /\ Len(results) = 1
    /\ results[1].priority = "critical"

\* C9: in every row url_count is the length of urls, urls holds no URL twice,
\* and its URLs are exactly those of the raw violations of the row's key.
C9_UrlCountAndUrls ==
    \A k \in DOMAIN results :
        LET r == results[k]
            g == Group(raw_results, RowKey(r))
        IN  /\ r.url_count = Len(r.urls)
            /\ NoDuplicates(r.urls)
            /\ Range(r.urls) = {raw_results[i].url : i \in g}

\* Three violations of one key on two pages made one row of two URLs.
C9_Witness ==
    /\ Len(raw_results) = 3
    /\ Len(results) = 1
    /\ results[1].url_count = 2
    /\ raw_results[1].url = raw_results[3].url

\* C10: the rows are ordered by rank descending and, at equal rank, by rule id
\* ascending; rows of an unknown or empty priority come last.
C10_SortedBySeverityThenRule ==
    /\ \A k \in 1..(Len(results) - 1) :
          LET e1 == results[k]
              e2 == results[k + 1]
          IN  \/ severity_rank(e1.priority) > severity_rank(e2.priority)
              \/ /\ severity_rank(e1.priority) = severity_rank(e2.priority)
                 /\ (e1.error_id = e2.error_id \/ LexLess(e1.error_id, e2.error_id))
    /\ \A i, j \in DOMAIN results :
          i < j /\ severity_rank(results[i].priority) = -1
              => severity_rank(results[j].priority) = -1

\* Three rows, fed least severe first, came out most severe first and the
\* unknown priority last.
C10_Witness ==
    /\ Len(raw_results) = 3
    /\ Len(results) = 3
    /\ raw_results[1].priority = "info"
    /\ raw_results[3].priority = "critical"
    /\ results[1].priority = "critical"
    /\ results[3].priority = "info"

\* Two records name the same issue: they agree on rule id, tag, element id,
\* element classes and the first 120 characters of inner text.
SameIssue(v, w) ==
    /\ v.rule_id = w.rule_id
    /\ v.tag = w.tag
    /\ v.element_id = w.element_id
    /\ v.element_classes = w.element_classes
    /\ Prefix(v.inner_text, 120) = Prefix(w.inner_text, 120)

\* The issue a row of the summary stands for.
RowIssue(r) ==
    [rule_id |-> r.error_id, tag |-> r.tag, element_id |-> r.element_id,
     element_classes |-> r.element_classes, inner_text |-> r.inner_text]

IssueClasses(raw) ==
    {{j \in DOMAIN raw : SameIssue(raw[i], raw[j])} : i \in DOMAIN raw}

\* C11: two raw violations get the same key exactly when they name the same
\* issue, whatever their url, priority, description and element HTML; there
\* is one row per issue of the raw list, no two rows of the same issue, and a
\* row holds the URLs of exactly the raw violations of its issue.
C11_SameIssueSameEntry ==
    results # <<>> =>
        /\ \A i, j \in DOMAIN raw_results :
              AggKey(raw_results[i]) = AggKey(raw_results[j])
                  <=> SameIssue(raw_results[i], raw_results[j])
        /\ Len(results) = Cardinality(IssueClasses(raw_results))
        /\ \A k1, k2 \in DOMAIN results :
              k1 # k2 => ~SameIssue(RowIssue(results[k1]), RowIssue(results[k2]))
        /\ \A k \in DOMAIN results :
              Range(results[k].urls) =
                  {raw_results[i].url :
                      i \in {j \in DOMAIN raw_results :
                                SameIssue(raw_results[j], RowIssue(results[k]))}}

\* Two violations whose inner texts differ after the 120th character only, on
\* two pages, made one row; a third of another tag made a second row.
C11_Witness ==
    /\ Len(raw_results) = 3
    /\ Len(results) = 2
    /\ Len(raw_results[1].inner_text) = 121
    /\ raw_results[1].inner_text # raw_results[2].inner_text
    /\ SameIssue(raw_results[1], raw_results[2])
    /\ raw_results[3].tag # raw_results[1].tag

\* The raw lists that are the raw list in another order.
Permuted(raw) ==
    {[i \in DOMAIN raw |-> raw[f[i]]] :
        f \in {g \in [DOMAIN raw -> DOMAIN raw] :
                  \A i, j \in DOMAIN raw : i # j => g[i] # g[j]}}

\* The aggregation keys of the rows, in the order of the rows.
RowKeys(rows) == [i \in DOMAIN rows |-> RowKey(rows[i])]

\* The sort keys of the rows, in the order of the rows.
SortKeys(rows) == [i \in DOMAIN rows |-> SortKey(rows[i])]

\* C21: the raw list taken in any other order aggregates to the same sequence
\* of aggregation keys.
C21_OrderIndependentKeys ==
    results = build_aggregated_results(raw_results) =>
        \A other \in Permuted(raw_results) :
            RowKeys(build_aggregated_results(other)) = RowKeys(results)

\* What holds of C21: in any other order the raw list aggregates to the same
\* set of keys and to the same sequence of sort keys (severity, rule id).
C21_OrderIndependentSortKeys ==
    results = build_aggregated_results(raw_results) =>
        \A other \in Permuted(raw_results) :
            LET rows == build_aggregated_results(other)
            IN  /\ Range(RowKeys(rows)) = Range(RowKeys(results))
                /\ SortKeys(rows) = SortKeys(results)

\* Two violations of one rule and one severity on two elements, aggregated:
\* taken in the other order their two rows come out in the other order.
C21_Witness ==
    /\ Len(raw_results) = 2
    /\ results = build_aggregated_results(raw_results)
    /\ Len(results) = 2
    /\ SortKey(results[1]) = SortKey(results[2])
    /\ RowKeys(build_aggregated_results(<<raw_results[2], raw_results[1]>>))
         = <<RowKey(results[2]), RowKey(results[1])>>

\* The position of the first raw violation of a key.
FirstOf(raw, key) ==
    CHOOSE i \in Group(raw, key) : \A j \in Group(raw, key) : i <= j

\* A row without what later violations of its key may change.
SeededPart(r) == [r EXCEPT !.urls = <<>>, !.url_count = 0, !.priority = ""]

\* C30: every row carries the description, the element HTML and the whole
\* inner text of the first raw violation of its key, as every field but urls,
\* url_count and priority; its priority is that of the first violation too
\* unless a later one of the key is strictly more severe.
C30_SeededFromFirst ==
    \A k \in DOMAIN results :
        LET r == results[k]
            g == Group(raw_results, RowKey(r))
            first == raw_results[FirstOf(raw_results, RowKey(r))]
        IN  /\ g # {}
            /\ r.description = first.description
            /\ r.element_html = first.element_html
            /\ r.inner_text = first.inner_text
            /\ SeededPart(r) = SeededPart(Row(SeedEntry(AggKey(first), first)))
            /\ (\A j \in g : severity_rank(raw_results[j].priority)
                                 <= severity_rank(first.priority))
                   => r.priority = first.priority

\* Three violations of one key whose inner texts agree on the KeyTextLen
\* characters the key takes and differ behind them made one row: it has the
\* whole inner text of the first.
C30_Witness ==
    /\ Len(raw_results) = 3
    /\ Len(results) = 1
    /\ Len(raw_results[1].inner_text) = KeyTextLen + 1
    /\ raw_results[2].inner_text # raw_results[1].inner_text
    /\ raw_results[3].inner_text # raw_results[1].inner_text
    /\ raw_results[3].inner_text # raw_results[2].inner_text
    /\ results[1].inner_text = raw_results[1].inner_text

-----------------------------------------------------------------------------
(* Properties of the scan orchestration *)

\* A worker is in the loop or the aggregation of run_scan_thread.
Busy(w) == w.pc \in LoopPcs \cup AggregatePcs

\* C12: a start request in a run changes nothing: the raw list, the aggregate
\* list, the cancellation flag, the progress, the run state and the workers
\* (none is added) are what they were.
C12_StartRejectedNoEffect ==
    [][is_scanning /\ lastOp' \in {"start_rejected", "start", "start_no_urls"}
          => UNCHANGED <<raw_results, results, cancel_requested, progress,
                         is_scanning, workers, status_label, widgets,
                         comp_table, selection>>]_vars

\* A start request has just been rejected while a scan was in flight and
\* records had been collected.
C12_Witness ==
    /\ lastOp = "start_rejected"
    /\ is_scanning
    /\ raw_results # <<>>
    /\ \E k \in DOMAIN workers : workers[k].pc = "scan"

\* C13: a cancel request outside a run changes nothing, the flag included; in
\* a run it sets the flag and disables its button, and the raw list, the
\* aggregate list, the workers and their pending batches are what they were.
C13_CancelOnlyWhileRunning ==
    [][lastOp' \in {"cancel", "cancel_ignored"} =>
          IF is_scanning
          THEN /\ cancel_requested'
               /\ widgets' = [widgets EXCEPT !.cancel_btn = "disabled"]
               /\ UNCHANGED <<raw_results, results, is_scanning, progress,
                              workers, status_label, comp_table, selection>>
          ELSE UNCHANGED <<raw_results, results, cancel_requested, progress,
                           is_scanning, workers, status_label, widgets,
                           comp_table, selection>>]_vars

\* A cancel request has just been ignored after a completed run: the flag is
\* still down and the records are there.
C13_Witness ==
    /\ lastOp = "cancel_ignored"
    /\ status_label = "Scan complete."
    /\ ~is_scanning
    /\ ~cancel_requested
    /\ raw_results # <<>>
    /\ results # <<>>

\* The batches of the Scanner invocations of a log, one after the other.
RECURSIVE Batches(_)
Batches(log) ==
    IF log = <<>> THEN <<>> ELSE Head(log).batch \o Batches(Tail(log))

\* The invocations of a log are those of URLs 1, 2, ... of the queue, in order.
InQueueOrder(log) == \A j \in DOMAIN log : log[j].i = j

\* The run stops being Running in this step.
RunEnds == is_scanning /\ ~is_scanning'

\* Cancel was accepted while the worker stood at the check for URL k + 1 of a
\* queue of more than k URLs, URL k being done.
CancelledBefore(k) ==
    /\ cancelPoint.pc = "check"
    /\ cancelPoint.i = k + 1
    /\ k < progress.maximum

\* C14: when cancel is accepted after URL k is done and before the check for
\* URL k + 1, k < n, the run ends with the raw list made of the batches of
\* URLs 1..k and of nothing else, the Scanner invoked for them only, and the
\* status "Scan cancelled.".
C14_CancelBetweenUrls ==
    [][\A k \in 0..MaxUrls :
          RunEnds /\ CancelledBefore(k) =>
              /\ Len(scanned) = k
              /\ InQueueOrder(scanned)
              /\ raw_results' = Batches(scanned)
              /\ status_label' = "Scan cancelled."]_vars

\* The same of the runs that began when no earlier thread was alive.
C14_WithoutOverlap ==
    [][\A k \in 0..MaxUrls :
          RunEnds /\ CancelledBefore(k) /\ ~overlap =>
              /\ Len(scanned) = k
              /\ InQueueOrder(scanned)
              /\ raw_results' = Batches(scanned)
              /\ status_label' = "Scan cancelled."]_vars

\* A run of two URLs, cancelled between them, has ended with the records of
\* the first URL only.
C14_Witness ==
    /\ ~is_scanning
    /\ lastOp = "worker"
    /\ ~overlap
    /\ cancelPoint = [pc |-> "check", i |-> 2]
    /\ progress.maximum = 2
    /\ Len(scanned) = 1
    /\ raw_results # <<>>
    /\ raw_results = Batches(scanned)
    /\ status_label = "Scan cancelled."

\* The one record that stands for a failed scan of url.
IsScanError(v, url) ==
    /\ v.rule_id = ScanErrorId
    /\ v.priority = "critical"
    /\ v.url = url

\* Thread k took the step.
Stepped(k) == k \in DOMAIN workers' /\ workers'[k] # workers[k]

\* C15: a failed scan of a URL hands the loop exactly one record, of rule id
\* SCAN_ERROR and priority critical, which is appended to the raw list with no
\* other record of that scan; the loop then goes on to the next URL, and scans
\* it unless cancel_requested is set at its check.
C15_ScanFailureContained ==
    [][\A k \in DOMAIN workers :
          LET w == workers[k]
          IN  Stepped(k) =>
                /\ w.pc = "scan" /\ scanned'[Len(scanned')].failed =>
                      /\ Len(workers'[k].violations) = 1
                      /\ IsScanError(workers'[k].violations[1], w.urls[w.i])
                      /\ workers'[k].pc = "append"
                /\ (/\ w.pc = "append"
                    /\ w.violations # <<>>
                    /\ scanned[Len(scanned)].failed) =>
                      /\ raw_results' = Append(raw_results, w.violations[1])
                      /\ IsScanError(w.violations[1], w.urls[w.i])
                      /\ workers'[k].violations = <<>>
                /\ w.pc = "append" /\ w.violations = <<>> =>
                      /\ workers'[k].pc = "check"
                      /\ workers'[k].i = w.i + 1
                      /\ workers'[k].urls = w.urls
                /\ (/\ w.pc = "check"
                    /\ w.i <= Len(w.urls)
                    /\ ~cancel_requested) =>
                      workers'[k].pc = "scan"]_vars

\* A run of two URLs whose first scan failed and whose second found records:
\* one SCAN_ERROR record, then the batch of the second URL.
C15_Witness ==
    /\ ~is_scanning
    /\ status_label = "Scan complete."
    /\ Len(scanned) = 2
    /\ scanned[1].failed
    /\ ~scanned[2].failed
    /\ Len(scanned[2].batch) = 2
    /\ Len(raw_results) = 3
    /\ raw_results = Batches(scanned)
    /\ IsScanError(raw_results[1], scanned[1].url)

\* The records of the batch in hand that the loop has still to append.
Pending ==
    IF workers # <<>> /\ CurrentWorker.pc = "append"
    THEN CurrentWorker.violations
    ELSE <<>>

\* The raw list is the batches of the URLs scanned so far, in queue order,
\* less the records still to be appended of the batch in hand.
RawIsBatchesSoFar ==
    /\ InQueueOrder(scanned)
    /\ raw_results \o Pending = Batches(scanned)

\* C16: at every point of a run the raw list is the concatenation, in the
\* order of the queue, of the batches of the URLs scanned so far, each batch in
\* the order the Scanner reported it.
C16_RawInUrlOrder == is_scanning => RawIsBatchesSoFar

\* The same of the runs that began when no earlier thread was alive.
C16_WithoutOverlap == is_scanning /\ ~overlap => RawIsBatchesSoFar

\* In a run of two URLs the second batch is half appended behind the first.
C16_Witness ==
    /\ is_scanning
    /\ ~overlap
    /\ Len(scanned) = 2
    /\ scanned[1].batch # <<>>
    /\ Len(Pending) = 1
    /\ Len(raw_results) = Len(scanned[1].batch) + 1
    /\ RawIsBatchesSoFar

\* The threads that stand in a call of run_axe_scan.
InScanner == {k \in DOMAIN workers : workers[k].pc = "scan"}

\* The threads that are in the loop or in the aggregation after it.
BusyWorkers == {k \in DOMAIN workers : Busy(workers[k])}

\* A thread is started in this step.
WorkerStarts == Len(workers') > Len(workers)

\* C17: at most one scan worker exists at a time, at most one call of the
\* Scanner is in flight at a time, and a worker is started only when every
\* earlier one has finished its loop and its aggregation.
C17_OneWorker ==
    /\ [](Len(workers) <= 1 /\ Cardinality(InScanner) <= 1)
    /\ [][WorkerStarts => BusyWorkers = {}]_vars

\* What holds of C17: at most one thread is in the loop or the aggregation,
\* at most one call of the Scanner is in flight, and a thread is started only
\* when no other is in the loop or the aggregation.
C17_OneBusyWorker ==
    /\ [](Cardinality(BusyWorkers) <= 1 /\ Cardinality(InScanner) <= 1)
    /\ [][WorkerStarts => BusyWorkers = {}]_vars

\* Two threads of run_scan_thread are alive: the earlier one still inside
\* set_scanning_state(False), the later one in a call of the Scanner.
C17_Witness ==
    /\ Len(workers) = 2
    /\ workers[1].pc = "b_rest"
    /\ workers[2].pc = "scan"
    /\ is_scanning

\* A button of a reader of self.results can be clicked.
ReaderEnabled ==
    \E b \in {"view_btn", "save_btn", "export_btn"} : Clickable(widgets, b)

\* A thread stands between "self.results = []" and the end of the sort.
Rebuilding == \E k \in DOMAIN workers : workers[k].pc \in {"rows", "sort"}

\* A thread, and no handler, writes self.results in this step.
WorkerWritesResults == lastOp' = "worker" /\ results' # results

\* A thread stands behind its loop, in build_aggregated_results.
LoopExited ==
    \E k \in DOMAIN workers : workers[k].pc \in {"reset", "rows", "sort"}

\* C18: a thread writes the aggregate list only after its loop; a reader is
\* enabled only when no run is Running, hence never while the list is being
\* rebuilt; and when a run stops being Running the aggregate list is the
\* aggregation of the full raw list.
C18_AggregateAfterLoop ==
    /\ [](ReaderEnabled => ~is_scanning /\ ~Rebuilding)
    /\ [][WorkerWritesResults => LoopExited]_vars
    /\ [][RunEnds => results' = build_aggregated_results(raw_results')]_vars

\* The same of the runs that began when no earlier thread was alive.
C18_WithoutOverlap ==
    /\ [](ReaderEnabled /\ ~overlap => ~is_scanning /\ ~Rebuilding)
    /\ [][WorkerWritesResults => LoopExited]_vars
    /\ [][RunEnds /\ ~overlap =>
             results' = build_aggregated_results(raw_results')]_vars

\* Save and export can be clicked while a run is Running and its thread has
\* emptied self.results and not yet sorted the new rows.
C18_Witness ==
    /\ is_scanning
    /\ Clickable(widgets, "save_btn")
    /\ Clickable(widgets, "export_btn")
    /\ Len(workers) = 1
    /\ workers[1].pc = "sort"
    /\ results # <<>>

\* C19: a start request that finds no URL leaves the window not Running,
\* starts no thread and leads to no call of the Scanner.
C19_EmptyStartNeverRuns ==
    [][lastOp' = "start_no_urls" =>
          /\ ~is_scanning'
          /\ UNCHANGED <<is_scanning, workers, scanned, progress,
                         cancel_requested, status_label>>]_vars

\* After a completed run, a start request with no URL was refused: no thread,
\* not Running, the status line still that of the completed run.
C19_Witness ==
    /\ lastOp = "start_no_urls"
    /\ ~is_scanning
    /\ workers = <<>>
    /\ InScanner = {}
    /\ scanned # <<>>
    /\ status_label = "Scan complete."

\* The count a row without url_count is to carry after a load.
CountOfUrls(r) == IF HasField(r, "urls") THEN Len(r.urls) ELSE 0

\* rows are the rows of a file as load_scan leaves them in self.results.
LoadedFrom(rows, loaded) ==
    /\ Len(loaded) = Len(rows)
    /\ \A i \in DOMAIN rows :
          IF HasField(rows[i], "url_count")
          THEN loaded[i] = rows[i]
          ELSE /\ HasField(loaded[i], "url_count")
               /\ loaded[i].url_count = CountOfUrls(rows[i])
               /\ DropKeys(loaded[i], {"url_count"}) = rows[i]

\* C20: after a load, every row of the file that had no url_count carries
\* url_count = the length of its urls, 0 when it has no urls either; the rows
\* are otherwise those of the file.
C20_LoadRecomputesUrlCount ==
    [][lastOp' = "load" =>
          \E data \in SavedFiles :
              LoadedFrom(Get(data, "results", <<>>), results')]_vars

\* A file was loaded whose first row lacked url_count and listed two URLs, and
\* whose second row lacked url_count and urls.
C20_Witness ==
    /\ lastOp = "load"
    /\ Len(results) = 2
    /\ results[1].url_count = 2
    /\ Len(results[1].urls) = 2
    /\ results[2].url_count = 0
    /\ ~HasField(results[2], "urls")

\* Thread k leaves its loop in this step and writes the status of the run.
LeavesLoop(k) ==
    /\ workers[k].pc = "exit"
    /\ Stepped(k)
    /\ workers'[k].pc = "fold"

\* Every URL of the queue of the thread has been scanned.
QueueExhausted(w) == w.i > Len(w.urls)

\* C22: a run whose queue was exhausted ends "Scan complete.", and a run ends
\* "Scan cancelled." only if its loop stopped at the check of a URL it then
\* did not scan.
C22_StatusTellsLoopExit ==
    [][\A k \in DOMAIN workers :
          LeavesLoop(k) =>
              /\ QueueExhausted(workers[k]) => status_label' = "Scan complete."
              /\ status_label' = "Scan cancelled." =>
                    ~QueueExhausted(workers[k])]_vars

\* What holds of C22: the status is "Scan cancelled." exactly when
\* cancel_requested is set after the loop; a loop that stopped early ends
\* "Scan cancelled.", and a run in which no cancel is pending ends "Scan
\* complete." with its queue exhausted.
C22_StatusTellsFlag ==
    [][\A k \in DOMAIN workers :
          LeavesLoop(k) =>
              /\ status_label' = "Scan cancelled." <=> cancel_requested
              /\ status_label' = "Scan complete." <=> ~cancel_requested
              /\ ~QueueExhausted(workers[k]) => cancel_requested
              /\ workers'[k].cancelled = cancel_requested]_vars

\* A run of two URLs, both scanned, cancel accepted while the second was being
\* scanned: the run has ended "Scan cancelled.".
C22_Witness ==
    /\ ~is_scanning
    /\ ~overlap
    /\ status_label = "Scan cancelled."
    /\ cancelPoint.pc = "other"
    /\ progress.maximum = 2
    /\ progress.value = 2
    /\ Len(scanned) = 2
    /\ raw_results = Batches(scanned)

\* The number of URLs whose scan was done or in flight when cancel was
\* accepted while the thread stood at pc with the loop at URL i.
BegunAtCancel ==
    IF cancelPoint.pc = "check" THEN cancelPoint.i - 1 ELSE cancelPoint.i

\* C23: a run in which cancel was accepted ends with no URL scanned beyond
\* the one in flight when the flag was set, and a batch the Scanner has
\* returned is appended whole, record by record, flag or no flag.
C23_CancelWithinOneUrl ==
    /\ [][RunEnds /\ cancelPoint # NoCancel =>
             /\ Len(scanned) <= BegunAtCancel
             /\ InQueueOrder(scanned)]_vars
    /\ [][cancel_requested =>
             \A k \in DOMAIN workers :
                 LET w == workers[k]
                 IN  Stepped(k) =>
                       /\ w.pc = "check" => workers'[k].pc = "exit"
                       /\ w.pc = "scan" =>
                             workers'[k].violations
                                 = scanned'[Len(scanned')].batch
                       /\ w.pc = "append" /\ w.violations # <<>> =>
                             /\ raw_results' = Append(raw_results, w.violations[1])
                             /\ workers'[k].violations = Tail(w.violations)
                             /\ workers'[k].pc = "append"]_vars

\* Cancel was accepted while the first of two URLs was being scanned: the run
\* has ended with the two records of that scan and the second URL not scanned.
C23_Witness ==
    /\ ~is_scanning
    /\ ~overlap
    /\ cancelPoint = [pc |-> "other", i |-> 1]
    /\ progress.maximum = 2
    /\ Len(scanned) = 1
    /\ Len(raw_results) = 2
    /\ raw_results = scanned[1].batch
    /\ status_label = "Scan cancelled."

\* C24: every run that has started leaves Running in the end, whether or not
\* cancel is requested and whatever scans fail, as long as its thread is
\* scheduled and every call of the Scanner returns.
C24_RunEnds == is_scanning ~> ~is_scanning

\* The handlers NextRun leaves out touch nothing a thread or the guard of
\* start_scan reads on its way to the end of the run.
C24_OtherHandlersKeepOut ==
    [][lastOp' \notin {"start", "start_no_urls", "start_rejected", "cancel",
                       "cancel_ignored", "worker"} =>
          UNCHANGED <<workers, is_scanning, cancel_requested, progress>>]_vars

\* A run of two URLs whose two scans failed, and in which cancel was accepted
\* during the second, has left Running with its rows built.
C24_Witness ==
    /\ ~is_scanning
    /\ lastOp = "worker"
    /\ Len(scanned) = 2
    /\ scanned[1].failed
    /\ scanned[2].failed
    /\ cancel_requested
    /\ results = build_aggregated_results(raw_results)
    /\ results # <<>>

\* Thread k has appended the last record of the batch of its URL i and writes
\* the progress value in this step.
UrlDone(k) ==
    /\ workers[k].pc = "append"
    /\ workers[k].violations = <<>>
    /\ Stepped(k)

\* C25: in a run the progress value never decreases and never exceeds the
\* length of the queue, set as the maximum at the start; it is i right after
\* the records of URL i have been appended, and when the loop is left it is
\* the number of URLs scanned.
C25_ProgressCountsUrls ==
    /\ [](progress.value <= progress.maximum)
    /\ [](\A k \in DOMAIN workers :
             workers[k].pc = "exit" /\ is_scanning =>
                 /\ progress.value = Len(scanned)
                 /\ progress.maximum = Len(workers[k].urls))
    /\ [][is_scanning /\ is_scanning' =>
             progress'.value >= progress.value
             /\ progress'.maximum = progress.maximum]_vars
    /\ [][\A k \in DOMAIN workers :
             UrlDone(k) =>
                 /\ progress'.value = workers[k].i
                 /\ progress'.value = Len(scanned)]_vars

\* The loop of a run of two URLs was left after the first: progress 1 of 2.
C25_Witness ==
    /\ is_scanning
    /\ workers # <<>>
    /\ CurrentWorker.pc = "exit"
    /\ progress = progress_bar(1, 2)
    /\ Len(scanned) = 1

\* C26: when a run ends, completed or cancelled, and when a file has been
\* loaded, the aggregate list is the aggregation of the raw list.
C26_AggregateIsDerived ==
    [][RunEnds \/ lastOp' = "load" =>
          results' = build_aggregated_results(raw_results')]_vars

\* What holds of C26: the runs that began when no earlier thread was alive end
\* with the aggregate list derived from the raw list.
C26_AfterRunsWithoutOverlap ==
    [][RunEnds /\ ~overlap =>
          results' = build_aggregated_results(raw_results')]_vars

\* A file with raw records and no "results" was loaded: two raw records, no
\* aggregate row.
C26_Witness ==
    /\ lastOp = "load"
    /\ ~is_scanning
    /\ workers = <<>>
    /\ raw_results = SavedRaw
    /\ results = <<>>
    /\ build_aggregated_results(raw_results) # <<>>

\* C27: while a run is Running the raw list changes only by a thread appending
\* one record at its end; a start that resets it and a load that replaces it
\* take no effect while a run is Running.
C27_RawAppendOnlyWhileRunning ==
    [][is_scanning /\ raw_results' # raw_results =>
          /\ lastOp' = "worker"
          /\ Len(raw_results') = Len(raw_results) + 1
          /\ SubSeq(raw_results', 1, Len(raw_results)) = raw_results
          /\ Pending # <<>>
          /\ raw_results'[Len(raw_results')] = Pending[1]]_vars

\* The same of the runs that began when no earlier thread was alive.
C27_WithoutOverlap ==
    [][is_scanning /\ ~overlap /\ raw_results' # raw_results =>
          /\ lastOp' = "worker"
          /\ Len(raw_results') = Len(raw_results) + 1
          /\ SubSeq(raw_results', 1, Len(raw_results)) = raw_results
          /\ Pending # <<>>
          /\ raw_results'[Len(raw_results')] = Pending[1]]_vars

\* A file was loaded over the records of a run that is still Running, its
\* thread about to scan its second URL.
C27_Witness ==
    /\ is_scanning
    /\ lastOp = "load"
    /\ raw_results = SavedRaw
    /\ Len(scanned) = 1
    /\ scanned[1].batch # <<>>
    /\ CurrentWorker.pc = "check"
    /\ CurrentWorker.i = 2


\* The thread of the run started last is at the first test of its loop.
AtFirstCheck ==
    /\ workers # <<>>
    /\ CurrentWorker.pc = "check"
    /\ CurrentWorker.i = 1

\* C32: a cancel request of one run never cancels a later run: the flag is
\* false when start_scan has started a run, and at the first test of the new
\* thread's loop it is set only if cancel_scan was accepted since that start.
C32_CancelNeverCarriesOver ==
    /\ lastOp = "start" => ~cancel_requested
    /\ AtFirstCheck /\ cancel_requested => cancelPoint # NoCancel

\* The thread of a cancelled run has not ended yet, the thread of the next run
\* is at its first test, and the flag is down.
C32_Witness ==
    /\ Len(workers) = 2
    /\ workers[1].cancelled
    /\ AtFirstCheck
    /\ ~cancel_requested
    /\ cancelPoint = NoCancel


\* C33: a start request refused for want of URLs leaves the raw list and the
\* aggregate list as they were, as a start request refused during a run does.
C33_RefusedStartKeepsLists ==
    [][lastOp' \in {"start_no_urls", "start_rejected"} =>
          UNCHANGED <<raw_results, results>>]_vars

\* A start request refused during a run leaves the two lists as they were; one
\* refused for want of URLs leaves them empty, and the tables with them.
C33_RefusedForNoUrlsClears ==
    [][/\ lastOp' = "start_rejected" => UNCHANGED <<raw_results, results>>
       /\ lastOp' = "start_no_urls" =>
             /\ raw_results' = <<>>
             /\ results' = <<>>
             /\ comp_table' = 0]_vars

\* After a completed run that found records, a start request with no URL was
\* refused: the lists are empty.
C33_Witness ==
    /\ lastOp = "start_no_urls"
    /\ status_label = "Scan complete."
    /\ \E i \in DOMAIN scanned : scanned[i].batch # <<>>
    /\ raw_results = <<>>
    /\ results = <<>>
    /\ workers = <<>>


\* The pages whose scan failed in the run, in the order of their scans.
RECURSIVE FailedPages(_)
FailedPages(log) ==
    IF log = <<>> THEN <<>>
    ELSE IF Head(log).failed THEN <<Head(log).url>> \o FailedPages(Tail(log))
    ELSE FailedPages(Tail(log))

\* The rows of the aggregate list that carry the rule id SCAN_ERROR.
ScanErrorRows(rows) == {i \in DOMAIN rows : rows[i].error_id = ScanErrorId}

\* rows hold the one entry that stands for the failed pages fp.
OneScanErrorRow(rows, fp) ==
    /\ Cardinality(ScanErrorRows(rows)) = 1
    /\ \A i \in ScanErrorRows(rows) :
          /\ rows[i].urls = SortedUrls(Range(fp))
          /\ rows[i].url_count = Cardinality(Range(fp))
          /\ rows[i].priority = "critical"
          /\ rows[i].description = ScanError(fp[1]).description
          /\ rows[i].tag = "" /\ rows[i].element_id = ""
          /\ rows[i].element_classes = "" /\ rows[i].inner_text = <<>>

\* C34: the records of the failed scans of a run share one aggregate key: when
\* the run ends and a page failed, the aggregate list holds exactly one entry
\* of rule id SCAN_ERROR, whose urls are the failed pages, whose priority is
\* critical and whose description is the message of the first failed page.
C34_OneScanErrorEntry ==
    [][RunEnds /\ FailedPages(scanned) # <<>> =>
          OneScanErrorRow(results', FailedPages(scanned'))]_vars

\* The same of the runs that began when no earlier thread was alive.
C34_WithoutOverlap ==
    [][RunEnds /\ ~overlap /\ FailedPages(scanned) # <<>> =>
          OneScanErrorRow(results', FailedPages(scanned'))]_vars


\* A run in which a page failed has ended, and the aggregate list holds no
\* entry of rule id SCAN_ERROR: the raw list was replaced during the run.
C34_Witness ==
    /\ ~is_scanning
    /\ lastOp = "worker"
    /\ \E k \in DOMAIN workers : workers[k].pc = "b_start"
    /\ status_label = "Scan complete."
    /\ FailedPages(scanned) # <<>>
    /\ ScanErrorRows(results) = {}
    /\ results # <<>>

=============================================================================
